---- MODULE Spec2Model ----
(***************************************************************************)
(* Model of json-deepl-translate (src/main.py): a run of main() loads the  *)
(* persisted cache file and the existing output file, walks the source     *)
(* document with iterate_translate / translate_string, and writes the      *)
(* result with save_results_file.  The Translation Service is the          *)
(* environment: every action runs the program up to the point where it     *)
(* blocks on the next answer of the service (or to the end of the run).    *)
(*                                                                         *)
(* JSON values are tagged records.  The source document, the existing      *)
(* output document and the persisted cache file are JSON objects at top    *)
(* level (get_strings_from_file is typed "-> dict", existing defaults to   *)
(* {} and GLOBAL_CACHE to dict()).                                         *)
(***************************************************************************)
EXTENDS Integers, Sequences, FiniteSets, TLC

VARIABLES
    data,          \* parsed source document (json.load of the input file)
    skip,          \* args.skip
    keep,          \* args.keep
    nocache,       \* args.nocache
    authKey,       \* DEEPL_AUTH_KEY is set in the environment
    inputFound,    \* the input file / locale resolution succeeds
    outFile,       \* content of the output file on disk, or Absent
    cacheFile,     \* content of .cache_locale/<lang>.json on disk, or Absent
    GLOBAL_CACHE,  \* the process cache of the running process
    existing,      \* existing output document loaded by get_strings_from_file
    resps,         \* answers of the service received so far in this run
    log,           \* what the traversal of this run has done so far
    results,       \* value returned by get_strings_from_file (when done)
    pc,            \* position of the process
    run,           \* number of runs started
    prevDone,      \* the run before the current one completed
    prevOut,       \* output file written by the run before the current one
    prevCalls      \* number of live calls made by the run before this one

vars == <<data, skip, keep, nocache, authKey, inputFound, outFile, cacheFile,
          GLOBAL_CACHE, existing, resps, log, results, pc, run,
          prevDone, prevOut, prevCalls>>

(***************************************************************************)
(* Bounds                                                                  *)
(***************************************************************************)
MaxRuns == 2

(***************************************************************************)
(* JSON values                                                             *)
(***************************************************************************)
Str(s) == [t |-> "str", s |-> s]
Num(n) == [t |-> "num", n |-> n]
Bool(b) == [t |-> "bool", b |-> b]
Null == [t |-> "null"]
Arr(xs) == [t |-> "arr", xs |-> xs]
Obj(es) == [t |-> "obj", es |-> es]
Entry(k, v) == [k |-> k, v |-> v]

Absent == [t |-> "absent"]
EmptyDict == Obj(<<>>)

\* names of array positions, used in paths
IdxName == <<"0", "1", "2", "3", "4">>

\* dict operations (Python: key in d, d[key], d.pop(key, None), bool(d))
DictKeys(d) == {d.es[i].k : i \in DOMAIN d.es}
DictHas(d, k) == k \in DictKeys(d)
DictGet(d, k) == d.es[CHOOSE i \in DOMAIN d.es : d.es[i].k = k].v
DictPop(d, ks) == Obj(SelectSeq(d.es, LAMBDA e : e.k \notin ks))
Truthy(d) == d.es # <<>>

decode_text(text) == text

(***************************************************************************)
(* Answers of the Translation Service, as urlopen delivers them            *)
(***************************************************************************)
Resp(status, hasTr, tr) == [status |-> status, hasTr |-> hasTr, tr |-> tr]

Responses ==
    { Resp(200, TRUE, <<"T">>),        \* one candidate
      Resp(200, TRUE, <<"U", "T">>),   \* more than one candidate
      Resp(200, TRUE, <<"">>),         \* empty translation text
      Resp(200, TRUE, <<>>),           \* translations: []
      Resp(200, FALSE, <<>>),          \* no translations field
      Resp(204, FALSE, <<>>),          \* 2xx other than 200
      Resp(429, FALSE, <<>>) }         \* non-2xx: urlopen raises HTTPError

NoResp == Resp(0, FALSE, <<>>)

Ev(ev, path, text, r) == [ev |-> ev, path |-> path, text |-> text, r |-> r]

\* traversal state threaded through the recursion: the answers not yet
\* consumed, the log, and "ok" / "wait" (blocked in urlopen) / "crash"
\* (an exception is propagating).  val is the returned value.
Ret(val, st) == [val |-> val, st |-> st]
Logged(st, e) == [st EXCEPT !.log = Append(@, e)]
Stopped(st, status) == [st EXCEPT !.status = status]

\* translate_string that goes to the network without the inter-call delay
translate_string_noSleep(text, path, ctx, st) ==
    IF DictHas(ctx.cache, text)
    THEN Ret(DictGet(ctx.cache, text), Logged(st, Ev("hit", path, text, NoResp)))
    ELSE LET s2 == Logged(st, Ev("call", path, text, NoResp))
         IN IF s2.resps = <<>>
            THEN Ret(Null, Stopped(s2, "wait"))
            ELSE LET r == Head(s2.resps)
                     s3 == Logged([s2 EXCEPT !.resps = Tail(@)],
                                  Ev("resp", path, text, r))
                 IN IF r.status < 200 \/ r.status > 299
                    THEN Ret(Null, Stopped(Logged(s3, Ev("crash", path, "HTTPError", NoResp)), "crash"))
                    ELSE IF r.status # 200 \/ ~r.hasTr
                    THEN Ret(Str(text), Logged(s3, Ev("ret", path, text, NoResp)))
                    ELSE IF Len(r.tr) = 0
                    THEN Ret(Null, Stopped(Logged(s3, Ev("crash", path, "IndexError", NoResp)), "crash"))
                    ELSE Ret(Str(decode_text(r.tr[1])),
                             Logged(s3, Ev("ret", path, decode_text(r.tr[1]), NoResp)))

\* translate_string.  Its cache argument is args.cache, which argparse sets
\* to True or to a non-empty list and never to None, so the process cache is
\* always consulted; nothing is ever stored in it during a run.  urlopen
\* raises HTTPError for a status outside 200..299, and translations[0] raises
\* IndexError on an empty list.
translate_string(text, path, ctx, st) ==
    IF DictHas(ctx.cache, text)
    THEN Ret(DictGet(ctx.cache, text), Logged(st, Ev("hit", path, text, NoResp)))
    ELSE LET s1 == Logged(st, Ev("sleep", path, text, NoResp))
             s2 == Logged(s1, Ev("call", path, text, NoResp))
         IN IF s2.resps = <<>>
            THEN Ret(Null, Stopped(s2, "wait"))
            ELSE LET r == Head(s2.resps)
                     s3 == Logged([s2 EXCEPT !.resps = Tail(@)],
                                  Ev("resp", path, text, r))
                 IN IF r.status < 200 \/ r.status > 299
                    THEN Ret(Null, Stopped(Logged(s3, Ev("crash", path, "HTTPError", NoResp)), "crash"))
                    ELSE IF r.status # 200
                    THEN Ret(Str(text), Logged(s3, Ev("ret", path, text, NoResp)))
                    ELSE IF ~r.hasTr
                    THEN Ret(Str(text), Logged(s3, Ev("ret", path, text, NoResp)))
                    ELSE IF Len(r.tr) = 0
                    THEN Ret(Null, Stopped(Logged(s3, Ev("crash", path, "IndexError", NoResp)), "crash"))
                    ELSE Ret(Str(decode_text(r.tr[1])),
                             Logged(s3, Ev("ret", path, decode_text(r.tr[1]), NoResp)))

RECURSIVE iterate_translate(_, _, _, _)
RECURSIVE IterDict(_, _, _, _, _, _)
RECURSIVE IterList(_, _, _, _, _, _)

\* the loop with the process cache consulted before the keep rule
IterDict_cacheFirst(es, i, res, path, ctx, st) ==
    IF i > Len(es) \/ st.status # "ok"
    THEN Ret(Obj(res), st)
    ELSE LET key == es[i].k
             value == es[i].v
             p == Append(path, key)
         IN IF key \in ctx.skip
            THEN IterDict(es, i + 1, Append(res, Entry(key, value)), path, ctx,
                          Logged(st, Ev("skip", p, key, NoResp)))
            ELSE IF DictHas(ctx.cache, key)
            THEN IterDict(es, i + 1, Append(res, Entry(key, DictGet(ctx.cache, key))),
                          path, ctx, Logged(st, Ev("cachekey", p, key, NoResp)))
            ELSE IF key \in ctx.keep /\ Truthy(ctx.existing) /\ ~DictHas(ctx.existing, key)
            THEN Ret(Obj(res), Stopped(Logged(st, Ev("crash", p, "KeyError", NoResp)), "crash"))
            ELSE IF /\ key \in ctx.keep /\ Truthy(ctx.existing)
                    /\ DictGet(ctx.existing, key) # Null
                    /\ DictGet(ctx.existing, key) # Str("")
            THEN IterDict(es, i + 1, Append(res, Entry(key, DictGet(ctx.existing, key))),
                          path, ctx, Logged(st, Ev("keep", p, key, NoResp)))
            ELSE LET w == iterate_translate(value, p, ctx,
                                            Logged(st, Ev("recurse", p, key, NoResp)))
                 IN IterDict(es, i + 1, Append(res, Entry(key, w.val)), path, ctx, w.st)

\* the loop with the keep rule tested before the skip rule
IterDict_keepFirst(es, i, res, path, ctx, st) ==
    IF i > Len(es) \/ st.status # "ok"
    THEN Ret(Obj(res), st)
    ELSE LET key == es[i].k
             value == es[i].v
             p == Append(path, key)
         IN IF key \in ctx.keep /\ Truthy(ctx.existing) /\ ~DictHas(ctx.existing, key)
            THEN Ret(Obj(res), Stopped(Logged(st, Ev("crash", p, "KeyError", NoResp)), "crash"))
            ELSE IF /\ key \in ctx.keep /\ Truthy(ctx.existing)
                    /\ DictGet(ctx.existing, key) # Null
                    /\ DictGet(ctx.existing, key) # Str("")
            THEN IterDict(es, i + 1, Append(res, Entry(key, DictGet(ctx.existing, key))),
                          path, ctx, Logged(st, Ev("keep", p, key, NoResp)))
            ELSE IF key \in ctx.skip
            THEN IterDict(es, i + 1, Append(res, Entry(key, value)), path, ctx,
                          Logged(st, Ev("skip", p, key, NoResp)))
            ELSE IF DictHas(ctx.cache, key)
            THEN IterDict(es, i + 1, Append(res, Entry(key, DictGet(ctx.cache, key))),
                          path, ctx, Logged(st, Ev("cachekey", p, key, NoResp)))
            ELSE LET w == iterate_translate(value, p, ctx,
                                            Logged(st, Ev("recurse", p, key, NoResp)))
                 IN IterDict(es, i + 1, Append(res, Entry(key, w.val)), path, ctx, w.st)

\* the loop over data.items(): entries i.. of es, res holds the entries done
IterDict(es, i, res, path, ctx, st) ==
    IF i > Len(es) \/ st.status # "ok"
    THEN Ret(Obj(res), st)
    ELSE LET key == es[i].k
             value == es[i].v
             p == Append(path, key)
         IN IF key \in ctx.skip
            THEN IterDict(es, i + 1, Append(res, Entry(key, value)), path, ctx,
                          Logged(st, Ev("skip", p, key, NoResp)))
            ELSE IF key \in ctx.keep /\ Truthy(ctx.existing) /\ ~DictHas(ctx.existing, key)
            THEN Ret(Obj(res), Stopped(Logged(st, Ev("crash", p, "KeyError", NoResp)), "crash"))
            ELSE IF /\ key \in ctx.keep /\ Truthy(ctx.existing)
                    /\ DictGet(ctx.existing, key) # Null
                    /\ DictGet(ctx.existing, key) # Str("")
            THEN IterDict(es, i + 1, Append(res, Entry(key, DictGet(ctx.existing, key))),
                          path, ctx, Logged(st, Ev("keep", p, key, NoResp)))
            ELSE IF DictHas(ctx.cache, key)
            THEN IterDict(es, i + 1, Append(res, Entry(key, DictGet(ctx.cache, key))),
                          path, ctx, Logged(st, Ev("cachekey", p, key, NoResp)))
            ELSE LET w == iterate_translate(value, p, ctx,
                                            Logged(st, Ev("recurse", p, key, NoResp)))
                 IN IterDict(es, i + 1, Append(res, Entry(key, w.val)), path, ctx, w.st)

\* the list comprehension over data
IterList(xs, i, res, path, ctx, st) ==
    IF i > Len(xs) \/ st.status # "ok"
    THEN Ret(Arr(res), st)
    ELSE LET w == iterate_translate(xs[i], Append(path, IdxName[i]), ctx, st)
         IN IterList(xs, i + 1, Append(res, w.val), path, ctx, w.st)

\* the dispatch without the isinstance(data, bool) test: a boolean falls
\* off the end of the function
iterate_translate_noBool(node, path, ctx, st) ==
    IF st.status # "ok" THEN Ret(Null, st)
    ELSE IF node.t = "obj" THEN IterDict(node.es, 1, <<>>, path, ctx, st)
    ELSE IF node.t = "arr" THEN IterList(node.xs, 1, <<>>, path, ctx, st)
    ELSE IF node.t = "str"
    THEN IF node.s = ""
         THEN Ret(node, Logged(st, Ev("empty", path, "", NoResp)))
         ELSE translate_string(node.s, path, ctx, st)
    ELSE IF node.t = "num" THEN Ret(node, st)
    ELSE Ret(Null, st)

iterate_translate(node, path, ctx, st) ==
    IF st.status # "ok" THEN Ret(Null, st)
    ELSE IF node.t = "obj" THEN IterDict(node.es, 1, <<>>, path, ctx, st)
    ELSE IF node.t = "arr" THEN IterList(node.xs, 1, <<>>, path, ctx, st)
    ELSE IF node.t = "str"
    THEN IF node.s = ""
         THEN Ret(node, Logged(st, Ev("empty", path, "", NoResp)))
         ELSE translate_string(node.s, path, ctx, st)
    ELSE IF node.t \in {"bool", "num"} THEN Ret(node, st)
    ELSE Ret(Null, st)   \* None falls off the end of the function

\* get_strings_from_file with the answers rs delivered so far
get_strings_from_file(d, ex, c, sk, kp, rs) ==
    iterate_translate(d, <<>>, [skip |-> sk, keep |-> kp, existing |-> ex, cache |-> c],
                      [resps |-> rs, log |-> <<>>, status |-> "ok"])

NumCalls(l) == Cardinality({i \in DOMAIN l : l[i].ev = "call"})

(***************************************************************************)
(* Inputs                                                                  *)
(***************************************************************************)
Keys == {"a", "b"}

Docs ==
    { Obj(<<Entry("a", Str("x")), Entry("b", Str("x"))>>),
      Obj(<<Entry("a", Obj(<<Entry("b", Str("x"))>>)), Entry("b", Num(3))>>),
      Obj(<<Entry("a", Arr(<<Str("x"), Str(""), Null, Bool(TRUE)>>)),
            Entry("b", Str("a"))>>) }

OutputFiles ==
    { Absent,
      EmptyDict,
      Obj(<<Entry("a", Str("E"))>>),
      Obj(<<Entry("a", Str("")), Entry("b", Null)>>),
      Obj(<<Entry("a", Obj(<<Entry("b", Str("E"))>>)), Entry("b", Str("E"))>>) }

CacheFiles ==
    { Absent,
      Obj(<<Entry("b", Str("C"))>>),
      Obj(<<Entry("x", Num(7))>>) }

NoCacheArgs == { {}, {"a"} }

(***************************************************************************)
(* The process                                                             *)
(***************************************************************************)
Init ==
    /\ data \in Docs
    /\ skip \in SUBSET Keys
    /\ keep \in SUBSET Keys
    /\ nocache \in NoCacheArgs
    /\ authKey \in BOOLEAN
    /\ inputFound \in BOOLEAN
    /\ outFile \in OutputFiles
    /\ cacheFile \in CacheFiles
    /\ GLOBAL_CACHE = EmptyDict
    /\ existing = EmptyDict
    /\ resps = <<>>
    /\ log = <<>>
    /\ results = Null
    /\ pc = "idle"
    /\ run = 0
    /\ prevDone = FALSE
    /\ prevOut = Absent
    /\ prevCalls = 0

\* save_results_file that leaves the persisted cache file without content
save_results_file_noCache(d) == [out |-> d, cache |-> EmptyDict]

\* save_results_file: the output file and (cache_file is never None when
\* caching is on) the persisted cache file both receive the result
save_results_file(d) == [out |-> d, cache |-> d]

\* the traversal has returned to w: blocked in urlopen, raised, or finished
\* (then main goes on to save_results_file)
Continue(w) ==
    /\ log' = w.st.log
    /\ IF w.st.status = "wait"
       THEN /\ pc' = "waiting"
            /\ UNCHANGED <<results, outFile, cacheFile>>
       ELSE IF w.st.status = "crash"
       THEN /\ pc' = "aborted"
            /\ UNCHANGED <<results, outFile, cacheFile>>
       ELSE /\ pc' = "done"
            /\ results' = w.val
            /\ outFile' = save_results_file(w.val).out
            /\ cacheFile' = save_results_file(w.val).cache

\* main() that never loads the persisted cache file
LoadCache_none(file, nc) == EmptyDict

\* the process cache main() builds: the persisted cache file, minus the
\* --nocache keys; an empty dict when there is no file
LoadCache(file, nc) == IF file # Absent THEN DictPop(file, nc) ELSE EmptyDict

\* the existing document get_strings_from_file loads
LoadExisting(file) == IF file # Absent THEN file ELSE EmptyDict

\* a new process runs main() up to its first live call (or to its end)
Main ==
    /\ pc # "waiting"
    /\ run < MaxRuns
    /\ run' = run + 1
    /\ prevDone' = (pc = "done")
    /\ prevOut' = IF pc = "done" THEN outFile ELSE Absent
    /\ prevCalls' = IF pc = "done" THEN NumCalls(log) ELSE 0
    /\ resps' = <<>>
    /\ UNCHANGED <<data, skip, keep, nocache, authKey, inputFound>>
    /\ IF ~authKey
       THEN /\ pc' = "config_error"
            /\ GLOBAL_CACHE' = EmptyDict
            /\ existing' = EmptyDict
            /\ log' = <<>>
            /\ UNCHANGED <<results, outFile, cacheFile>>
       ELSE IF ~inputFound
       THEN /\ pc' = "exited"
            /\ GLOBAL_CACHE' = EmptyDict
            /\ existing' = EmptyDict
            /\ log' = <<>>
            /\ UNCHANGED <<results, outFile, cacheFile>>
       ELSE /\ GLOBAL_CACHE' = LoadCache(cacheFile, nocache)
            /\ existing' = LoadExisting(outFile)
            /\ Continue(get_strings_from_file(data, LoadExisting(outFile),
                                              LoadCache(cacheFile, nocache),
                                              skip, keep, <<>>))

\* urlopen returns (or raises) with the service's answer r; the traversal
\* goes on to the next live call (or to the end of main)
Respond ==
    /\ pc = "waiting"
    /\ \E r \in Responses :
         /\ resps' = Append(resps, r)
         /\ Continue(get_strings_from_file(data, existing, GLOBAL_CACHE,
                                           skip, keep, Append(resps, r)))
    /\ UNCHANGED <<data, skip, keep, nocache, authKey, inputFound,
                   GLOBAL_CACHE, existing, run, prevDone, prevOut, prevCalls>>

Next == Main \/ Respond

Spec == Init /\ [][Next]_vars

(***************************************************************************)
(* Vocabulary of the properties                                            *)
(***************************************************************************)
Last(p) == p[Len(p)]
IsPrefix(p, q) == Len(p) <= Len(q) /\ SubSeq(q, 1, Len(p)) = p
IsProperPrefix(p, q) == Len(p) < Len(q) /\ SubSeq(q, 1, Len(p)) = p
InRange(i) == i \in DOMAIN log

\* the value at a path of a document, Absent when the path leads nowhere
RECURSIVE At(_, _)
At(tree, p) ==
    IF p = <<>> THEN tree
    ELSE IF tree.t = "obj" /\ DictHas(tree, Head(p))
    THEN At(DictGet(tree, Head(p)), Tail(p))
    ELSE IF tree.t = "arr" /\ \E i \in DOMAIN tree.xs : IdxName[i] = Head(p)
    THEN At(tree.xs[CHOOSE i \in DOMAIN tree.xs : IdxName[i] = Head(p)], Tail(p))
    ELSE Absent

\* the paths of all object entries of a document, at any depth
RECURSIVE EntryPaths(_, _)
EntryPaths(tree, path) ==
    IF tree.t = "obj"
    THEN UNION { {Append(path, tree.es[i].k)}
                 \cup EntryPaths(tree.es[i].v, Append(path, tree.es[i].k))
                 : i \in DOMAIN tree.es }
    ELSE IF tree.t = "arr"
    THEN UNION { EntryPaths(tree.xs[i], Append(path, IdxName[i])) : i \in DOMAIN tree.xs }
    ELSE {}

\* same key sequences, same array lengths, same non-string leaves
RECURSIVE SameShape(_, _)
SameShape(a, b) ==
    IF a.t = "obj"
    THEN /\ b.t = "obj"
         /\ Len(b.es) = Len(a.es)
         /\ \A i \in DOMAIN a.es :
              b.es[i].k = a.es[i].k /\ SameShape(a.es[i].v, b.es[i].v)
    ELSE IF a.t = "arr"
    THEN /\ b.t = "arr"
         /\ Len(b.xs) = Len(a.xs)
         /\ \A i \in DOMAIN a.xs : SameShape(a.xs[i], b.xs[i])
    ELSE IF a.t = "str" THEN b.t = "str"
    ELSE b = a

\* the existing output document holds a non-null, non-empty value at k
HasValue(ex, k) == DictHas(ex, k) /\ DictGet(ex, k) # Null /\ DictGet(ex, k) # Str("")

\* log positions where the traversal decided an object entry
IsEntryEvent(e) ==
    \/ e.ev \in {"skip", "keep", "cachekey", "recurse"}
    \/ e.ev = "crash" /\ e.text = "KeyError"

\* no live call (and no delay) was made for a leaf at or below path p
NoCallUnder(p) ==
    \A j \in DOMAIN log : log[j].ev \in {"sleep", "call"} => ~IsPrefix(p, log[j].path)

\* no entry or leaf of this run was answered from the existing document or
\* from the process cache
NoReuse == \A i \in DOMAIN log : log[i].ev \notin {"keep", "cachekey", "hit"}

\* no enclosing entry of p was answered from the existing document or from
\* the process cache
NotReplacedAbove(p) ==
    \A i \in DOMAIN log :
        log[i].ev \in {"keep", "cachekey"} => ~IsProperPrefix(log[i].path, p)

\* the answer r is a failure of the service: a non-2xx status, or a
\* success status without a translations field
Failed(r) == r.status < 200 \/ r.status > 299 \/ ~r.hasTr

(***************************************************************************)
(* Properties                                                              *)
(***************************************************************************)

C3_SkipAtAnyDepth ==
    pc = "done" =>
        \A p \in EntryPaths(data, <<>>) :
            Last(p) \in skip => At(results, p) = At(data, p)

\* C3 (amended): for every object entry of the source document, at any
\* depth, whose key is in skip, no live call is made for its subtree, and
\* after a completed run the output value at that entry equals the input
\* value provided no enclosing entry was taken from the existing output
\* document (keep) or from the process cache.
C3_SkipPrecedence ==
    \A p \in EntryPaths(data, <<>>) :
        Last(p) \in skip =>
            /\ NoCallUnder(p)
            /\ (pc = "done" /\ NotReplacedAbove(p)) => At(results, p) = At(data, p)

C3_Witness ==
    /\ pc = "done"
    /\ \E i \in DOMAIN log :
         /\ log[i].ev = "skip"
         /\ Len(log[i].path) = 2
         /\ Last(log[i].path) \in keep
         /\ HasValue(existing, Last(log[i].path))
         /\ At(results, log[i].path) = Str("x")

\* C4: whenever the answer to a live call is a failure (non-2xx status, or a
\* success without a translations field), translate_string returns the
\* original text for that leaf and the traversal goes on.
C4_LeafFailureDegrades ==
    \A i \in DOMAIN log :
        (log[i].ev = "resp" /\ Failed(log[i].r))
        => /\ InRange(i + 1)
           /\ log[i + 1].ev = "ret"
           /\ log[i + 1].text = log[i].text

\* C5: a run that passed the credential check and the input resolution is
\* never aborted, and when it ends the output file holds a value for every
\* key of the source document.
C5_RunCompletes ==
    (authKey /\ inputFound /\ run > 0)
    => /\ pc \in {"waiting", "done"}
       /\ pc = "done" => DictKeys(outFile) = DictKeys(data)

\* C6: when the previous run completed (and so wrote the persisted cache
\* file) and no cache key is invalidated, the current run makes no live
\* call.
C6_CacheReuse ==
    (run >= 2 /\ prevDone /\ nocache = {}) => NumCalls(log) = 0

C6_Witness ==
    /\ run = 2 /\ prevDone /\ nocache = {} /\ pc = "done"
    /\ prevCalls > 0
    /\ skip = {} /\ keep = {}
    /\ \E i \in DOMAIN log : log[i].ev = "cachekey"

\* C7 (as stated): with keep holding all top-level keys of the document, the
\* output file written by a run that follows a completed run is identical to
\* the output file that run wrote.
C7_IdempotentRerun ==
    (pc = "done" /\ prevDone /\ keep = DictKeys(data)) => outFile = prevOut

\* C7 (amended): the same, provided no cache key is invalidated (--nocache)
\* for the second run.
C7_IdempotentRerunNoInvalidation ==
    (pc = "done" /\ prevDone /\ keep = DictKeys(data) /\ nocache = {})
    => outFile = prevOut

C7_Witness ==
    /\ pc = "done" /\ prevDone /\ keep = DictKeys(data) /\ nocache = {}
    /\ prevCalls > 0
    /\ outFile = prevOut
    /\ outFile # data
    /\ \E i \in DOMAIN log : log[i].ev = "keep"

\* C8: every live call is immediately preceded by one delay of the same
\* leaf, every delay is immediately followed by its call, and a leaf
\* answered from the process cache or holding the empty string has neither a
\* delay nor a call.
C8_RateLimitOrdering ==
    /\ \A i \in DOMAIN log :
         log[i].ev = "call" =>
            /\ InRange(i - 1)
            /\ log[i - 1].ev = "sleep"
            /\ log[i - 1].path = log[i].path
    /\ \A i \in DOMAIN log :
         log[i].ev = "sleep" =>
            /\ InRange(i + 1)
            /\ log[i + 1].ev = "call"
    /\ \A i \in DOMAIN log :
         log[i].ev \in {"hit", "empty"} =>
            \A j \in DOMAIN log :
                log[j].ev \in {"sleep", "call"} => log[j].path # log[i].path

C8_Witness ==
    /\ pc = "done"
    /\ \E i \in DOMAIN log : log[i].ev = "hit"
    /\ \E i \in DOMAIN log : log[i].ev = "empty"
    /\ \E i \in DOMAIN log : log[i].ev = "call"

\* C9: every object entry the traversal decides whose key is in keep and not
\* in skip, and for which the existing output document holds no value, null
\* or the empty string, is answered by the cache rule or by recursive
\* translation; the traversal does not fail there.
C9_KeepFallsThrough ==
    \A i \in DOMAIN log :
        (/\ IsEntryEvent(log[i])
         /\ Last(log[i].path) \in keep \ skip
         /\ ~HasValue(existing, Last(log[i].path)))
        => log[i].ev \in {"cachekey", "recurse"}

\* C10: within one run no source string is sent to the service twice.
C10_Dedup ==
    \A i, j \in DOMAIN log :
        (log[i].ev = "call" /\ log[j].ev = "call" /\ i # j)
        => log[i].text # log[j].text

====
